---- MODULE Spec2Model ----
(***************************************************************************)
(* A model of the rt1 package: the volume phase functions of volume.py     *)
(* (Rayleigh, HenyeyGreenstein, HGRayleigh), their Legendre expansion      *)
(* (Volume.legexpansion), the linear combination LinCombV, and the RT1     *)
(* class of rt1.py.                                                        *)
(*                                                                         *)
(* Numbers.  Python floats are modelled as exact rationals [n, d]; d = 0   *)
(* stands for NaN.  Legendre coefficients are given in units of 1/(4 pi).  *)
(* A weighting factor of a linear combination is a pair [tenths, ticks]    *)
(* standing for tenths/10 + ticks * 1e-8; sums of weights are formed       *)
(* componentwise, which is exact as long as the ticks stay below 10^7.     *)
(* Floating point rounding (about 1e-16) is far below the 1e-8 grid of     *)
(* the inputs and is not modelled.                                         *)
(***************************************************************************)
EXTENDS Integers, Sequences, FiniteSets, TLC

VARIABLES heap, last, globals, R

vars == <<heap, last, globals, R>>

(***************************************************************************)
(* Bounds of the model.                                                    *)
(***************************************************************************)
\* the largest ncoefs a phase function is constructed with
MaxNcoefs == 2
\* the largest number of phase functions, and of choices of a combination
MaxChoices == 2
\* the largest number of samples of an angle sweep
MaxSamples == 2

----------------------------------------------------------------------------
(***************************************************************************)
(* Python values.                                                          *)
(***************************************************************************)
PyNone == [ty |-> "NoneType", n |-> 0, d |-> 1, items |-> <<>>]
PyFloat(n, d) == [ty |-> "float", n |-> n, d |-> d, items |-> <<>>]
PyInt(n) == [ty |-> "int", n |-> n, d |-> 1, items |-> <<>>]
PyList(items) == [ty |-> "list", n |-> 0, d |-> 1, items |-> items]
PyTuple(items) == [ty |-> "tuple", n |-> 0, d |-> 1, items |-> items]
Symbol(name) == [ty |-> "Symbol", n |-> 0, d |-> 1, items |-> <<name>>]

IsNaN(x) == x.ty = "float" /\ x.d = 0
\* Python's == on two numbers: a NaN equals nothing, itself included
PyEq(x, y) == ~IsNaN(x) /\ ~IsNaN(y) /\ x.n * y.d = y.n * x.d
\* >= 0 on a number
PyNonNegative(x) == x.d > 0 /\ x.n >= 0
\* Python's > 0 on a number
PyPositive(x) == x.d > 0 /\ x.n > 0

(***************************************************************************)
(* Exact rationals.                                                        *)
(***************************************************************************)
Abs(x) == IF x < 0 THEN -x ELSE x

RECURSIVE GCD(_, _)
GCD(a, b) == IF b = 0 THEN a ELSE GCD(b, a % b)

Rat(n, d) ==
    LET g == GCD(Abs(n), Abs(d))
        s == IF d < 0 THEN -1 ELSE 1
    IN  [n |-> (s * n) \div g, d |-> (s * d) \div g]

RZero == [n |-> 0, d |-> 1]
RAdd(x, y) == Rat(x.n * y.d + y.n * x.d, x.d * y.d)
RMul(x, y) == Rat(x.n * y.n, x.d * y.d)

RECURSIVE RPow(_, _)
RPow(x, k) == IF k <= 0 THEN [n |-> 1, d |-> 1] ELSE RMul(x, RPow(x, k - 1))

RECURSIVE MinOf(_)
\* the smallest member instead
MinOf(S) ==
    LET x == CHOOSE y \in S : TRUE
    IN  IF S = {x} THEN x
        ELSE LET m == MinOf(S \ {x}) IN IF x < m THEN x ELSE m

RECURSIVE MaxOf(_)
\* Python's max() of a non-empty set of integers
MaxOf(S) ==
    LET x == CHOOSE y \in S : TRUE
    IN  IF S = {x} THEN x
        ELSE LET m == MaxOf(S \ {x}) IN IF x > m THEN x ELSE m

(***************************************************************************)
(* Weighting factors: tenths/10 + ticks * 1e-8.                            *)
(***************************************************************************)
Weight(tenths, ticks) == [tenths |-> tenths, ticks |-> ticks]
WOne == Weight(10, 0)
WZero == Weight(0, 0)
WAdd(v, w) == Weight(v.tenths + w.tenths, v.ticks + w.ticks)
\* the weight in units of 1e-8
Ticks(w) == w.tenths * (10 ^ 7) + w.ticks

(***************************************************************************)
(* Symbolic expressions (sympy).  The expressions the package builds are   *)
(* linear combinations of the closed forms of the three phase functions;   *)
(* an expression is the set of its terms [w, base] with distinct bases and *)
(* non-zero coefficients (sympy collects like terms).  The float 0. the    *)
(* dummy phase function starts with is the empty set.                      *)
(***************************************************************************)
ExprZero == {}
ExprOf(base) == {[w |-> WOne, base |-> base]}
ExprCoef(e, b) == IF \E x \in e : x.base = b
                  THEN (CHOOSE x \in e : x.base = b).w ELSE WZero
\* e * w for a float w and an expression e whose coefficients are all 1
\* (the expressions of the three phase functions)
ExprScale(e, w) == {y \in {[w |-> w, base |-> x.base] : x \in e} : y.w # WZero}
\* e1 + e2
ExprAdd(e1, e2) ==
    LET bases == {x.base : x \in e1 \cup e2}
    IN  {y \in {[w |-> WAdd(ExprCoef(e1, b), ExprCoef(e2, b)), base |-> b]
                : b \in bases} : y.w # WZero}

----------------------------------------------------------------------------
(***************************************************************************)
(* scatter.py: the generalized scattering angle.  Scatter.scat_angle is    *)
(* called by volume.py but is not part of the source files at hand; it is  *)
(* the sum  a[0] cos(t0) cos(tex) + a[1] sin(t0) sin(tex) cos(p0) cos(pex) *)
(* + a[2] sin(t0) sin(tex) sin(p0) sin(pex), kept here as a symbolic term. *)
(***************************************************************************)
scat_angle(theta_0, theta_ex, phi_0, phi_ex, a) ==
    << [c |-> a.items[1],
        f |-> << <<"cos", theta_0>>, <<"cos", theta_ex>> >>],
       [c |-> a.items[2],
        f |-> << <<"sin", theta_0>>, <<"sin", theta_ex>>,
                 <<"cos", phi_0>>, <<"cos", phi_ex>> >>],
       [c |-> a.items[3],
        f |-> << <<"sin", theta_0>>, <<"sin", theta_ex>>,
                 <<"sin", phi_0>>, <<"sin", phi_ex>> >>] >>

(***************************************************************************)
(* volume.py: objects.  An object is a record of its attributes; attrs is  *)
(* the set of the attributes that are set on the instance (reading another *)
(* one is an AttributeError, unless the class defines it).                 *)
(*   func, legcoefs : symbolic expressions                                 *)
(*   legexpansion   : the instance attribute LinCombV sets: the addresses  *)
(*                    of the dummy phase functions whose bound methods the *)
(*                    lambda of _Vcombiner sums                            *)
(*   Vchoices       : a list of [w, ref], ref an address of the heap       *)
(***************************************************************************)
NewObj(cls) ==
    [cls |-> cls, attrs |-> {}, omega |-> PyNone, tau |-> PyNone,
     a |-> PyNone, t |-> PyNone, ncoefs |-> PyNone, func |-> ExprZero,
     legcoefs |-> ExprZero, legexpansion |-> <<>>, Vchoices |-> <<>>]

Raise(msg, self) == [exc |-> msg, self |-> self]
Return(self) == [exc |-> "", self |-> self]

\* the default of Volume.__init__ and of the a parameter of the constructors
DefaultA == PyList(<<PyFloat(-1, 1), PyFloat(1, 1), PyFloat(1, 1)>>)

\* tau and omega taken for one another
Volume_init_swapped(self, kw) ==
    LET s1 == [self EXCEPT !.omega = kw.tau, !.attrs = @ \cup {"omega"}]
        s2 == [s1 EXCEPT !.tau = kw.omega, !.attrs = @ \cup {"tau"}]
    IN  [s2 EXCEPT !.a = IF "a" \in self.attrs THEN self.a ELSE DefaultA,
                   !.attrs = @ \cup {"a"}]

\* kw: the keyword arguments tau and omega, None when not given
Volume_init(self, kw) ==
    LET s1 == [self EXCEPT !.omega = kw.omega, !.attrs = @ \cup {"omega"}]
        s2 == [s1 EXCEPT !.tau = kw.tau, !.attrs = @ \cup {"tau"}]
    IN  [s2 EXCEPT !.a = IF "a" \in self.attrs THEN self.a ELSE DefaultA,
                   !.attrs = @ \cup {"a"}]

\* the closed form of a phase function: its class, its asymmetry parameter
\* and (the function only) the scattering angle it is a function of
FuncBase(self) ==
    [cls |-> self.cls, t |-> self.t,
     x |-> scat_angle(Symbol("theta_0"), Symbol("theta_ex"),
                      Symbol("phi_0"), Symbol("phi_ex"), self.a)]
CoefBase(self) == [cls |-> self.cls, t |-> self.t, x |-> <<>>]

set_function(self) ==
    [self EXCEPT !.func = ExprOf(FuncBase(self)), !.attrs = @ \cup {"func"}]
set_legcoefficients(self) ==
    [self EXCEPT !.legcoefs = ExprOf(CoefBase(self)),
                 !.attrs = @ \cup {"legcoefs"}]

RayleighNcoefs == 3

Rayleigh_set_legcoefficients(self) ==
    set_legcoefficients([self EXCEPT !.ncoefs = PyInt(RayleighNcoefs),
                                     !.attrs = @ \cup {"ncoefs"}])

Rayleigh_init(kw) ==
    Return(Rayleigh_set_legcoefficients(
               set_function(Volume_init(NewObj("Rayleigh"), kw))))

ErrT == "AssertionError: t parameter needs to be provided!"
ErrNcoefs == "AssertionError: Number of coefficients needs to be specified"
ErrList == "AssertionError: Error: Generalization-parameter needs to be a list"
ErrLen == "AssertionError: Error: Generalization-parameter list must contain 3 values"
ErrFloat == "AssertionError: Error: Generalization-parameter array must contain only floating-point values!"
ErrPositive == "AssertionError"

\* the body HenyeyGreenstein.__init__ and HGRayleigh.__init__ share
HG_init(cls, t, ncoefs, a, kw) ==
    LET s0 == NewObj(cls)
    IN
    IF t = PyNone THEN Raise(ErrT, s0)
    ELSE IF ncoefs = PyNone THEN Raise(ErrNcoefs, s0)
    ELSE
    LET s1 == Volume_init(s0, kw)
        s2 == [s1 EXCEPT !.t = t, !.attrs = @ \cup {"t"}]
        s3 == [s2 EXCEPT !.a = a, !.attrs = @ \cup {"a"}]
    IN
    IF s3.a.ty # "list" THEN Raise(ErrList, s3)
    ELSE IF Len(a.items) # 3 THEN Raise(ErrLen, s3)
    ELSE IF \E i \in 1..Len(a.items) : a.items[i].ty # "float"
         THEN Raise(ErrFloat, s3)
    ELSE
    LET s4 == [s3 EXCEPT !.ncoefs = ncoefs, !.attrs = @ \cup {"ncoefs"}]
    IN
    IF ~PyPositive(s4.ncoefs) THEN Raise(ErrPositive, s4)
    ELSE Return(set_legcoefficients(set_function(s4)))

HenyeyGreenstein_init(t, ncoefs, a, kw) ==
    HG_init("HenyeyGreenstein", t, ncoefs, a, kw)

HGRayleigh_init(t, ncoefs, a, kw) == HG_init("HGRayleigh", t, ncoefs, a, kw)

(***************************************************************************)
(* The Legendre coefficients, evaluated at n, in units of 1/(4 pi).        *)
(***************************************************************************)
RInt(n) == [n |-> n, d |-> 1]

Rayleigh_legcoefs(n) ==
    \* 3/(16 pi) (4/3 delta(0,n) + 2/3 delta(2,n))
    RMul(Rat(3, 4), RAdd(IF n = 0 THEN Rat(4, 3) ELSE RZero,
                       IF n = 2 THEN Rat(2, 3) ELSE RZero))

HenyeyGreenstein_legcoefs(t, n) ==
    \* 1/(4 pi) (2 n + 1) t^n
    RMul(RInt(2 * n + 1), RPow(t, n))

HGRayleigh_legcoefs(t, n) ==
    LET pre == RMul(Rat(3, 2), Rat(4 * t.d * t.d, 8 * t.d * t.d + 4 * t.n * t.n))
        low == RAdd(RAdd(RMul(Rat((n + 2) * (n + 1), 2 * n + 3), RPow(t, n + 2)),
                         RMul(Rat((n + 1) * (n + 1), 2 * n + 3), RPow(t, n))),
                    RMul(Rat(5 * n * n - 1, 2 * n - 1), RPow(t, n)))
    IN  IF n < 2 THEN RMul(pre, low)
        ELSE RMul(pre, RAdd(RMul(Rat(n * (n - 1), 2 * n - 1), RPow(t, n - 2)),
                            low))

\* the closed form base at n
BaseCoefAt(base, n) ==
    LET t == [n |-> base.t.n, d |-> base.t.d]
    IN  CASE base.cls = "Rayleigh" -> Rayleigh_legcoefs(n)
          [] base.cls = "HenyeyGreenstein" -> HenyeyGreenstein_legcoefs(t, n)
          [] base.cls = "HGRayleigh" -> HGRayleigh_legcoefs(t, n)

----------------------------------------------------------------------------
(***************************************************************************)
(* The heap: a sequence of objects, an address is an index.                *)
(***************************************************************************)
Alloc(h, o) == Append(h, o)
\* setattr(h[addr], name, val)
Store(h, addr, name, val) ==
    [h EXCEPT ![addr] = [@ EXCEPT ![name] = val, !.attrs = @ \cup {name}]]

RECURSIVE SortedSeq(_)
\* the members of a set of integers in ascending order
SortedSeq(S) ==
    IF S = {} THEN <<>>
    ELSE LET m == CHOOSE x \in S : \A y \in S : x <= y
         IN  <<m>> \o SortedSeq(S \ {m})

NoKw == [tau |-> PyNone, omega |-> PyNone]

\* the dummy class Phasefunction(Volume) of _Vcombiner
Phasefunction_init(kw) ==
    LET s1 == Volume_init(NewObj("Phasefunction"), kw)
        s2 == [s1 EXCEPT !.func = ExprZero, !.attrs = @ \cup {"func"}]
    IN  [s2 EXCEPT !.legcoefs = ExprZero, !.attrs = @ \cup {"legcoefs"}]

(***************************************************************************)
(* numpy.testing.assert_almost_equal(desired, actual) with the default of  *)
(* 7 decimals, on values in units of 1e-8.  numpy up to 1.11 raises when   *)
(* round(abs(desired - actual), 7) != 0, later versions when               *)
(* abs(desired - actual) >= 1.5e-7.  TRUE: the assertion passes.           *)
(***************************************************************************)
NumpyVersions == {"round", "abs"}

\* a check against the tolerance of 1e-8 instead
assert_almost_equal_1e8(np, desired, actual) == Abs(desired - actual) <= 1

assert_almost_equal(np, desired, actual) ==
    IF np = "round" THEN Abs(desired - actual) < 5
    ELSE Abs(desired - actual) < 15

ErrWeights == "AssertionError: The sum of the phase-function weighting-factors must equate to 1 !"
\* a class without members: np.take of no indices (line 271) or max of no
\* ncoefs (line 273) raises, whichever the numpy at hand comes to first
ErrEmpty == "TypeError or ValueError: a class without members"

RECURSIVE SumTicks(_, _)
\* np.sum([V[0] for V in Vchoices]), in units of 1e-8
SumTicks(Vch, k) ==
    IF k > Len(Vch) THEN 0 ELSE Ticks(Vch[k].w) + SumTicks(Vch, k + 1)

\* (np.array(a1) == tuple(a2)).all()
SameA(a1, a2) ==
    \A k \in 1..3 : PyEq(a1.items[k], a2.items[k])

\* equals[i]: the indices of the choices whose a equals that of choice i
Equals(h, Vch) ==
    [i \in 1..Len(Vch) |->
        {j \in 1..Len(Vch) : SameA(h[Vch[j].ref].a, h[Vch[i].ref].a)}]

RECURSIVE ClassSeq(_)
\* list(S) for a set S of index tuples; Python leaves the order of the list
\* open, the combination does not depend on it: smallest first member first
ClassSeq(S) ==
    IF S = {} THEN <<>>
    ELSE LET Key(c) == IF c = {} THEN 0 ELSE CHOOSE x \in c : \A y \in c : x <= y
             m == CHOOSE c \in S : \A e \in S : Key(c) <= Key(e)
         IN  <<m>> \o ClassSeq(S \ {m})

\* the rows of equals as they are, one for each choice
EqualA_rows(h, Vch) == [i \in 1..Len(Vch) |-> Equals(h, Vch)[i]]

\* equal_a = list({tuple(row) for row in equals})
EqualA(h, Vch) == ClassSeq({Equals(h, Vch)[i] : i \in 1..Len(Vch)})

\* the first phase function of the class is taken for the dummy
DummyAddr_alias(h, Vch, members) ==
    IF members = <<>> THEN Len(h) ELSE Vch[members[1]].ref

\* Vdummy = Phasefunction(): the address of the object just allocated
DummyAddr(h, Vch, members) == Len(h)

\* Vdummy._func = Vdummy._func + V[1]._func * V[0], and so for legcoefs
AddMember(h, vd, V) ==
    [h EXCEPT ![vd] =
        [@ EXCEPT !.a = h[V.ref].a,
                  !.func = ExprAdd(@, ExprScale(h[V.ref].func, V.w)),
                  !.legcoefs = ExprAdd(@, ExprScale(h[V.ref].legcoefs, V.w)),
                  !.attrs = @ \cup {"a", "func", "legcoefs"}]]

RECURSIVE ClassMembers(_, _, _, _, _)
\* for V in Vequal: ... (lines 275-280)
ClassMembers(h, Vch, members, m, vd) ==
    IF m > Len(members) THEN h
    ELSE ClassMembers(AddMember(h, vd, Vch[members[m]]), Vch, members, m + 1,
                      vd)

\* one pass of the loop over equal_a on the heap with the new Vdummy
ClassDummy(h, Vch, class, members, vd) ==
    ClassMembers(Store(h, vd, "ncoefs",
                       PyInt(MaxOf({h[Vch[j].ref].ncoefs.n : j \in class}))),
                 Vch, members, 1, vd)

RECURSIVE Classes(_, _, _, _, _)
\* for i in range(0, len(equal_a)): ... (lines 268-282)
Classes(h, Vch, equal_a, i, dummylegexpansion) ==
    IF i > Len(equal_a)
    THEN [exc |-> "", heap |-> h, dummylegexpansion |-> dummylegexpansion]
    ELSE IF equal_a[i] = {}
    THEN [exc |-> ErrEmpty, heap |-> Alloc(h, Phasefunction_init(NoKw)),
          dummylegexpansion |-> dummylegexpansion]
    ELSE Classes(ClassDummy(Alloc(h, Phasefunction_init(NoKw)), Vch,
                            equal_a[i], SortedSeq(equal_a[i]),
                            DummyAddr(Alloc(h, Phasefunction_init(NoKw)), Vch,
                                      SortedSeq(equal_a[i]))),
                 Vch, equal_a, i + 1,
                 Append(dummylegexpansion,
                        DummyAddr(Alloc(h, Phasefunction_init(NoKw)), Vch,
                                  SortedSeq(equal_a[i]))))

RECURSIVE CombFunc(_, _, _, _)
\* for V in self.Vchoices: Vcomb._func = Vcomb._func + V[1]._func * V[0]
CombFunc(h, Vch, k, vc) ==
    IF k > Len(Vch) THEN h
    ELSE CombFunc(Store(h, vc, "func",
                        ExprAdd(h[vc].func,
                                ExprScale(h[Vch[k].ref].func, Vch[k].w))),
                  Vch, k + 1, vc)

\* Vcomb = Phasefunction(tau=self.tau, omega=self.omega) with its ncoefs
NewVcomb(h, self) ==
    Store(Alloc(h, Phasefunction_init([tau |-> h[self].tau,
                                       omega |-> h[self].omega])),
          Len(h) + 1, "ncoefs",
          PyInt(MaxOf({h[h[self].Vchoices[j].ref].ncoefs.n :
                         j \in 1..Len(h[self].Vchoices)})))

\* r: the outcome of the loop over equal_a; vc: the address of Vcomb
CombinerResult(r, Vch, vc) ==
    IF r.exc # "" THEN [exc |-> r.exc, heap |-> r.heap, Vcomb |-> 0]
    ELSE [exc |-> "",
          heap |-> CombFunc(Store(r.heap, vc, "legexpansion",
                                  r.dummylegexpansion), Vch, 1, vc),
          Vcomb |-> vc]

\* LinCombV._Vcombiner of the object at address self; np: the numpy at hand
Vcombiner(h, self, np) ==
    IF ~assert_almost_equal(np, Ticks(WOne), SumTicks(h[self].Vchoices, 1))
    THEN [exc |-> ErrWeights, heap |-> h, Vcomb |-> 0]
    ELSE CombinerResult(Classes(NewVcomb(h, self), h[self].Vchoices,
                                EqualA(h, h[self].Vchoices), 1, <<>>),
                        h[self].Vchoices, Len(h) + 1)

\* self.name = self._Vcombiner().attr where r is what _Vcombiner returned;
\* st: the construction so far
SetFromCombiner(st, r, name, attr) ==
    IF r.exc # "" THEN [exc |-> r.exc, heap |-> r.heap, self |-> 0]
    ELSE [exc |-> "",
          heap |-> Store(r.heap, st.self, name, r.heap[r.Vcomb][attr]),
          self |-> st.self]

\* one of the three assignments of _set_function and _set_legexpansion
SetAttr(st, np, name, attr) ==
    IF st.exc # "" THEN st
    ELSE SetFromCombiner(st, Vcombiner(st.heap, st.self, np), name, attr)

\* LinCombV(Vchoices=Vchoices, **kw)
LinCombV_init(h, Vchoices, kw, np) ==
    SetAttr(SetAttr(SetAttr([exc |-> "",
                             heap |-> Alloc(h, [Volume_init(NewObj("LinCombV"), kw)
                                                  EXCEPT !.Vchoices = Vchoices,
                                                         !.attrs = @ \cup {"Vchoices"}]),
                             self |-> Len(h) + 1],
                            np, "func", "func"),
                    np, "ncoefs", "ncoefs"),
            np, "legexpansion", "legexpansion")

----------------------------------------------------------------------------
(***************************************************************************)
(* Volume.legexpansion.  A geometry is the sequence of its characters.     *)
(* The value is a sympy expression: a sum (a sequence) of unevaluated      *)
(* Sum(legcoefs * legendre(n, x), (n, lo, hi)) terms.                      *)
(***************************************************************************)
Mono == <<"m", "o", "n", "o">>
PiMinus(x) == [ty |-> "pi - x", n |-> 0, d |-> 1, items |-> <<x>>]
PiPlus(x) == [ty |-> "x + pi", n |-> 0, d |-> 1, items |-> <<x>>]

ErrGeometry(slot) == "AssertionError: wrong choice of " \o slot \o " geometry"

\* one slot of a geometry: the symbol for 'v', the value for 'f'
Slot(c, name, value) == IF c = "v" THEN Symbol(name) ELSE value

\* the exception the choice of the sympy variables raises, "" for none
GeometryError(geometry) ==
    IF geometry = Mono THEN ""
    ELSE IF geometry[1] \notin {"v", "f"} THEN ErrGeometry("theta_i")
    ELSE IF geometry[2] \notin {"v", "f"} THEN ErrGeometry("theta_ex")
    ELSE IF geometry[3] \notin {"v", "f"} THEN ErrGeometry("phi_i")
    ELSE IF geometry[4] \notin {"v", "f"} THEN ErrGeometry("phi_ex")
    ELSE ""

\* the slot of t_ex decides theta_0 and that of p_ex decides phi_0
ExpansionAngles_exit(t_0, t_ex, p_0, p_ex, geometry) ==
    IF geometry = Mono
    THEN [theta_0 |-> Symbol("theta_0"), theta_ex |-> Symbol("theta_0"),
          phi_0 |-> p_0, phi_ex |-> PiPlus(p_0)]
    ELSE [theta_0 |-> Slot(geometry[2], "theta_0", t_ex),
          theta_ex |-> Slot(geometry[2], "theta_ex", t_ex),
          phi_0 |-> Slot(geometry[4], "phi_0", p_ex),
          phi_ex |-> Slot(geometry[4], "phi_ex", p_ex)]

\* the sympy variables of the chosen geometry (lines 117-150)
ExpansionAngles(t_0, t_ex, p_0, p_ex, geometry) ==
    IF geometry = Mono
    THEN [theta_0 |-> Symbol("theta_0"), theta_ex |-> Symbol("theta_0"),
          phi_0 |-> p_0, phi_ex |-> PiPlus(p_0)]
    ELSE [theta_0 |-> Slot(geometry[1], "theta_0", t_0),
          theta_ex |-> Slot(geometry[2], "theta_ex", t_ex),
          phi_0 |-> Slot(geometry[3], "phi_0", p_0),
          phi_ex |-> Slot(geometry[4], "phi_ex", p_ex)]

\* the expansion in the exit angles as they are passed, monostatic or not
Volume_legexpansion_exit(self, t_0, t_ex, p_0, p_ex, geometry) ==
    IF ~PyPositive(self.ncoefs) THEN [exc |-> "AssertionError", val |-> <<>>]
    ELSE IF GeometryError(geometry) # ""
    THEN [exc |-> GeometryError(geometry), val |-> <<>>]
    ELSE LET g == ExpansionAngles(t_0, t_ex, p_0, p_ex, geometry)
         IN  [exc |-> "",
              val |-> << [legcoefs |-> self.legcoefs,
                          x |-> scat_angle(PiMinus(g.theta_0), t_ex, g.phi_0,
                                           p_ex, self.a),
                          lo |-> 0, hi |-> self.ncoefs.n - 1] >>]

Volume_legexpansion(self, t_0, t_ex, p_0, p_ex, geometry) ==
    \* assert self.ncoefs > 0
    IF ~PyPositive(self.ncoefs) THEN [exc |-> "AssertionError", val |-> <<>>]
    ELSE IF GeometryError(geometry) # ""
    THEN [exc |-> GeometryError(geometry), val |-> <<>>]
    ELSE
    LET theta_s == Symbol("theta_s")
        phi_s == Symbol("phi_s")
        NP == self.ncoefs.n
        g == ExpansionAngles(t_0, t_ex, p_0, p_ex, geometry)
    IN  \* g.theta_ex and g.phi_ex are assigned and not used (line 153)
        [exc |-> "",
         val |-> << [legcoefs |-> self.legcoefs,
                     x |-> scat_angle(PiMinus(g.theta_0), theta_s, g.phi_0,
                                      phi_s, self.a),
                     lo |-> 0, hi |-> NP - 1] >>]

RECURSIVE SumExpansions(_, _, _, _, _, _, _, _)
\* np.sum([lexp(t_0, t_ex, p_0, p_ex, geometry) for lexp in dummylegexpansion])
SumExpansions(h, dummies, k, t_0, t_ex, p_0, p_ex, geometry) ==
    IF k > Len(dummies) THEN [exc |-> "", val |-> <<>>]
    ELSE LET r == Volume_legexpansion(h[dummies[k]], t_0, t_ex, p_0, p_ex,
                                      geometry)
             rest == SumExpansions(h, dummies, k + 1, t_0, t_ex, p_0, p_ex,
                                   geometry)
         IN  IF r.exc # "" THEN r
             ELSE IF rest.exc # "" THEN rest
             ELSE [exc |-> "", val |-> r.val \o rest.val]

\* h[addr].legexpansion(t_0, t_ex, p_0, p_ex, geometry): the instance
\* attribute a LinCombV carries, the method of Volume otherwise
legexpansion(h, addr, t_0, t_ex, p_0, p_ex, geometry) ==
    IF "legexpansion" \in h[addr].attrs
    THEN SumExpansions(h, h[addr].legexpansion, 1, t_0, t_ex, p_0, p_ex,
                       geometry)
    ELSE Volume_legexpansion(h[addr], t_0, t_ex, p_0, p_ex, geometry)

----------------------------------------------------------------------------
(***************************************************************************)
(* Operations on the volume objects.  last is the last call: its           *)
(* arguments, the exception it raised ("" for none), the address of the    *)
(* object it was about (0 when a constructor failed) and its value.        *)
(***************************************************************************)
\* the objects the caller holds: the dummy phase functions are internal
UserObjs(h) == {i \in 1..Len(h) : h[i].cls # "Phasefunction"}
Components(h) ==
    {i \in 1..Len(h) : h[i].cls \in {"Rayleigh", "HenyeyGreenstein", "HGRayleigh"}}
Combinations(h) == {i \in 1..Len(h) : h[i].cls = "LinCombV"}

NoCall == [op |-> "", args |-> <<>>, exc |-> "", ref |-> 0, val |-> <<>>]

\* the outcome of a constructor: the new object is on the heap when it
\* returned, and nobody holds it when it raised
Constructed(op, args, r) ==
    /\ heap' = IF r.exc = "" THEN Append(heap, r.self) ELSE heap
    /\ last' = [op |-> op, args |-> args, exc |-> r.exc,
                ref |-> IF r.exc = "" THEN Len(heap) + 1 ELSE 0, val |-> <<>>]

\* no call handles an exception: the first one raised ends the run
Running == last.exc = ""

\* the phase functions are constructed first, then they are combined
CanConstruct ==
    /\ Running
    /\ Cardinality(Components(heap)) < MaxChoices
    /\ Combinations(heap) = {}

NewRayleigh(kw) ==
    /\ CanConstruct
    /\ Constructed("Rayleigh", [kw |-> kw], Rayleigh_init(kw))
    /\ UNCHANGED <<globals, R>>

NewHenyeyGreenstein(t, ncoefs, a, kw) ==
    /\ CanConstruct
    /\ Constructed("HenyeyGreenstein",
                   [t |-> t, ncoefs |-> ncoefs, a |-> a, kw |-> kw],
                   HenyeyGreenstein_init(t, ncoefs, a, kw))
    /\ UNCHANGED <<globals, R>>

NewHGRayleigh(t, ncoefs, a, kw) ==
    /\ CanConstruct
    /\ Constructed("HGRayleigh",
                   [t |-> t, ncoefs |-> ncoefs, a |-> a, kw |-> kw],
                   HGRayleigh_init(t, ncoefs, a, kw))
    /\ UNCHANGED <<globals, R>>

\* the list [[weights[1], heap[1]], [weights[2], heap[2]], ...]
ChoicesOf(weights) == [i \in 1..Len(weights) |-> [w |-> weights[i], ref |-> i]]

\* r: what LinCombV.__init__ returned or raised
Combined(weights, kw, r) ==
    /\ heap' = IF r.exc = "" THEN r.heap ELSE SubSeq(r.heap, 1, Len(heap))
    /\ last' = [op |-> "LinCombV", args |-> [weights |-> weights, kw |-> kw],
                exc |-> r.exc, ref |-> r.self, val |-> <<>>]

\* LinCombV(Vchoices, tau=kw.tau, omega=kw.omega) of the phase functions
\* constructed so far, one weight each.  When the constructor raises, the
\* objects it allocated are unreachable and only the earlier ones remain.
NewLinCombV(weights, kw, np) ==
    /\ Running
    /\ Combinations(heap) = {}
    /\ Len(weights) = Len(heap)
    /\ Combined(weights, kw, LinCombV_init(heap, ChoicesOf(weights), kw, np))
    /\ UNCHANGED <<globals, R>>

\* r: what the expansion returned or raised
Expanded(addr, args, r) ==
    last' = [op |-> "legexpansion", args |-> args, exc |-> r.exc,
             ref |-> addr, val |-> r.val]

Expand(addr, t_0, t_ex, p_0, p_ex, geometry) ==
    /\ Running
    /\ Expanded(addr,
                [t_0 |-> t_0, t_ex |-> t_ex, p_0 |-> p_0, p_ex |-> p_ex,
                 geometry |-> geometry],
                legexpansion(heap, addr, t_0, t_ex, p_0, p_ex, geometry))
    /\ UNCHANGED <<heap, globals, R>>

----------------------------------------------------------------------------
(***************************************************************************)
(* rt1.py.  An RT1 instance is the function from the names of the          *)
(* attributes set on it to their values; globals is that function for the  *)
(* names bound in the module, and R is the instance bound to the name R,   *)
(* <<>> before there is one.  The radiances are kept as terms.             *)
(***************************************************************************)
Ref(addr) == [ty |-> "ref", n |-> addr, d |-> 1, items |-> <<>>]
\* the surface of the module surface and the generator of the fn
\* coefficients of the module coefficients
Isotropic == [ty |-> "Isotropic", n |-> 0, d |-> 1, items |-> <<>>]
FnGiven == [ty |-> "Fn", n |-> 0, d |-> 1, items |-> <<>>]
Neg(x) == [x EXCEPT !.n = -x.n]

HasAttr(self, name) == name \in DOMAIN self
\* o with the name bound to the value
Bind(o, name, value) ==
    [k \in DOMAIN o \cup {name} |-> IF k = name THEN value ELSE o[k]]

ErrRV == "AssertionError: ERROR: needs to provide volume information"
ErrSRF == "AssertionError: ERROR: needs to provide surface information"

\* the construction goes through whatever RV and SRF are
RT1_init_unchecked(I0, mu_0, mu_ex, RV, SRF, nmax, Fn) ==
    Return([I0 |-> I0, mu_0 |-> mu_0, mu_ex |-> mu_ex, RV |-> RV,
            SRF |-> SRF, nmax |-> nmax, Fn |-> Fn])

RT1_init(I0, mu_0, mu_ex, RV, SRF, nmax, Fn) ==
    LET s1 == [I0 |-> I0, mu_0 |-> mu_0, mu_ex |-> mu_ex, RV |-> RV]
        s2 == Bind(s1, "SRF", SRF)
    IN  IF s1.RV = PyNone THEN Raise(ErrRV, s1)
        ELSE IF s2.SRF = PyNone THEN Raise(ErrSRF, s2)
        ELSE Return(Bind(Bind(s2, "nmax", nmax), "Fn", Fn))

cos_theta(mu_i, mu_s, phi_i, phi_s) ==
    [fn |-> "cos_theta", args |-> <<mu_i, mu_s, phi_i, phi_s>>]
\* SRF.brdf(ctheta)
brdf(SRF, ctheta) == [fn |-> "brdf", args |-> <<SRF, ctheta>>]

NameError(name) == "NameError: name '" \o name \o "' is not defined"
AttributeError(cls, name) ==
    "AttributeError: '" \o cls \o "' object has no attribute '" \o name \o "'"
TypeError == "TypeError: unsupported operand type(s)"

Value(v) == [exc |-> "", val |-> v]
Raised(msg) == [exc |-> msg, val |-> <<>>]

\* I0 exp(-tau/mu_0 - tau/mu_ex) mu_0 brdf
SurfaceTerm(I0, tau, mu_0, mu_ex, b) ==
    [fn |-> "surface", args |-> <<I0, tau, mu_0, mu_ex, b>>]
\* I0 omega mu_0/(mu_0 + mu_ex) (1 - exp(-tau/mu_0 - tau/mu_ex)) phase
VolumeTerm(I0, omega, tau, mu_0, mu_ex, ph) ==
    [fn |-> "volume", args |-> <<I0, omega, tau, mu_0, mu_ex, ph>>]
\* Isurf + Ivol + Iint
Total(Isurf, Ivol, Iint) == [fn |-> "+", args |-> <<Isurf, Ivol, Iint>>]

\* g: the globals of the module.  Line 86 reads the global I0, then self.tau
surface(self, g) ==
    LET ctheta == cos_theta(Neg(self.mu_0), self.mu_ex, PyFloat(0, 1),
                            PyFloat(0, 1))
    IN  IF ~HasAttr(g, "I0") THEN Raised(NameError("I0"))
        ELSE IF ~HasAttr(self, "tau") THEN Raised(AttributeError("RT1", "tau"))
        ELSE Value(SurfaceTerm(g["I0"], self["tau"], self.mu_0, self.mu_ex,
                               brdf(self.SRF, ctheta)))

\* line 92 reads self.I0, self.omega, self.mu_0, self.mu_ex, self.tau,
\* self.phase and the global ctheta, in this order
volume(self, g) ==
    IF ~HasAttr(self, "omega") THEN Raised(AttributeError("RT1", "omega"))
    ELSE IF ~HasAttr(self, "tau") THEN Raised(AttributeError("RT1", "tau"))
    ELSE IF ~HasAttr(self, "phase") THEN Raised(AttributeError("RT1", "phase"))
    ELSE IF ~HasAttr(g, "ctheta") THEN Raised(NameError("ctheta"))
    ELSE Value(VolumeTerm(self.I0, self["omega"], self["tau"], self.mu_0,
                          self.mu_ex,
                          [fn |-> "phase", args |-> <<g["ctheta"]>>]))

\* the first pass of the loops reads the unbound name todo; the function
\* has no return statement
calc_Fint(self, g, mu1, mu2) ==
    IF self.Fn = PyNone THEN Raised(AttributeError("NoneType", "fn"))
    ELSE IF self.nmax.n > 0 /\ ~HasAttr(g, "todo") THEN Raised(NameError("todo"))
    ELSE IF self.nmax.n > 0 /\ ~HasAttr(g, "expi") THEN Raised(NameError("expi"))
    ELSE Value(PyNone)

\* line 100 multiplies by Fint1, the None that _calc_Fint returned
interaction(self, g) ==
    LET Fint1 == calc_Fint(self, g, self.mu_0, self.mu_ex)
        Fint2 == calc_Fint(self, g, self.mu_ex, self.mu_0)
    IN  IF Fint1.exc # "" THEN Fint1
        ELSE IF Fint2.exc # "" THEN Fint2
        ELSE Raised(TypeError)

calc(self, g) ==
    LET Isurf == surface(self, g)
        Ivol == volume(self, g)
        Iint == interaction(self, g)
    IN  IF Isurf.exc # "" THEN Isurf
        ELSE IF Ivol.exc # "" THEN Ivol
        ELSE IF Iint.exc # "" THEN Iint
        ELSE Value(<<Total(Isurf.val, Ivol.val, Iint.val), Isurf.val,
                     Ivol.val, Iint.val>>)

\* I0=1. at the top level of the module
Assign_I0 ==
    /\ Running
    /\ ~HasAttr(globals, "I0")
    /\ globals' = Bind(globals, "I0", PyFloat(1, 1))
    /\ UNCHANGED <<heap, last, R>>

\* R = RT1(I0, mu_0, mu_ex, RV=RV, SRF=SRF, nmax=nmax, Fn=Fn); the name R is
\* bound when the constructor returned
NewRT1(I0, mu_0, mu_ex, RV, SRF, nmax, Fn) ==
    /\ Running
    /\ HasAttr(globals, "I0")
    /\ LET r == RT1_init(I0, mu_0, mu_ex, RV, SRF, nmax, Fn)
       IN  /\ R' = IF r.exc = "" THEN r.self ELSE R
           /\ last' = [op |-> "RT1",
                       args |-> [I0 |-> I0, mu_0 |-> mu_0, mu_ex |-> mu_ex,
                                 RV |-> RV, SRF |-> SRF, nmax |-> nmax,
                                 Fn |-> Fn],
                       exc |-> r.exc, ref |-> 0, val |-> <<>>]
    /\ UNCHANGED <<heap, globals>>

\* r: what the method returned or raised
Returned(op, args, r) ==
    last' = [op |-> op, args |-> args, exc |-> r.exc, ref |-> 0, val |-> r.val]

\* a method of R is called
Called(op, r) ==
    /\ Running
    /\ R # <<>>
    /\ last' = [op |-> op, args |-> <<>>, exc |-> r.exc, ref |-> 0,
                val |-> r.val]
    /\ UNCHANGED <<heap, globals, R>>

CallCalc == Called("calc", calc(R, globals))
CallSurface == Called("surface", surface(R, globals))
CallVolume == Called("volume", volume(R, globals))
CallInteraction == Called("interaction", interaction(R, globals))

\* R._calc_Fint(mu1, mu2)
CallCalcFint(mu1, mu2) ==
    /\ Running
    /\ R # <<>>
    /\ Returned("_calc_Fint", [mu1 |-> mu1, mu2 |-> mu2],
                calc_Fint(R, globals, mu1, mu2))
    /\ UNCHANGED <<heap, globals, R>>

----------------------------------------------------------------------------
(***************************************************************************)
(* The statements at the top level of rt1.py after I0=1.: the angle sweep. *)
(* The names they bind are in globals; the name R is the variable R.       *)
(***************************************************************************)
NaN == PyFloat(0, 0)
\* np.ones_like(inc)*np.nan
NaNs(inc) == PyList([j \in 1..Len(inc.items) |-> NaN])
\* arr[k] = v, k counted from 0
SetItem(arr, k, v) == [arr EXCEPT !.items[k + 1] = v]

\* inc = np.arange(...): the angles of the samples
Assign_inc(inc) ==
    /\ Running
    /\ HasAttr(globals, "I0") /\ ~HasAttr(globals, "inc")
    /\ globals' = Bind(globals, "inc", PyList(inc))
    /\ UNCHANGED <<heap, last, R>>

\* V = Rayleigh(tau=kw.tau, omega=kw.omega)
Assign_V(kw) ==
    /\ Running
    /\ HasAttr(globals, "inc") /\ ~HasAttr(globals, "V")
    /\ heap' = Append(heap, Rayleigh_init(kw).self)
    /\ globals' = Bind(globals, "V", Ref(Len(heap) + 1))
    /\ UNCHANGED <<last, R>>

\* SRF = Isotropic()
Assign_SRF ==
    /\ Running
    /\ HasAttr(globals, "V") /\ ~HasAttr(globals, "SRF")
    /\ globals' = Bind(globals, "SRF", Isotropic)
    /\ UNCHANGED <<heap, last, R>>

\* Itot, Isurf, Iint and Ivol = np.ones_like(inc)*np.nan
Assign_Results ==
    /\ Running
    /\ HasAttr(globals, "SRF") /\ ~HasAttr(globals, "Itot")
    /\ globals' = Bind(Bind(Bind(Bind(globals, "Itot", NaNs(globals["inc"])),
                                 "Isurf", NaNs(globals["inc"])),
                            "Iint", NaNs(globals["inc"])),
                       "Ivol", NaNs(globals["inc"]))
    /\ UNCHANGED <<heap, last, R>>

\* the i of the next pass of for i in xrange(len(inc))
NextIndex(g) == IF HasAttr(g, "i") THEN g["i"].n + 1 ELSE 0

\* i, mu_0 = inc[i] and mu_ex = mu_0*1. of the pass i
SampleGlobals(g, i) ==
    Bind(Bind(Bind(g, "i", PyInt(i)), "mu_0", g["inc"].items[i + 1]),
         "mu_ex", g["inc"].items[i + 1])

\* Itot[i], Isurf[i], Ivol[i], Iint[i] = val
Recorded(g, i, val) ==
    Bind(Bind(Bind(Bind(g, "Itot", SetItem(g["Itot"], i, val[1])),
                   "Isurf", SetItem(g["Isurf"], i, val[2])),
              "Ivol", SetItem(g["Ivol"], i, val[3])),
         "Iint", SetItem(g["Iint"], i, val[4]))

\* c: what R.calc() returned or raised; nothing handles what it raised
SampleCalc(g, self, c) ==
    /\ R' = self
    /\ globals' = IF c.exc # "" THEN g ELSE Recorded(g, g["i"].n, c.val)
    /\ last' = [op |-> "sample", args |-> [i |-> g["i"].n], exc |-> c.exc,
                ref |-> 0, val |-> c.val]
    /\ UNCHANGED heap

\* r: what RT1(I0, mu_0, mu_ex, RV=V, SRF=SRF) returned or raised
SampleRT1(g, r) ==
    IF r.exc # ""
    THEN /\ globals' = g
         /\ last' = [op |-> "sample", args |-> [i |-> g["i"].n],
                     exc |-> r.exc, ref |-> 0, val |-> <<>>]
         /\ UNCHANGED <<heap, R>>
    ELSE SampleCalc(g, r.self, calc(r.self, g))

\* one pass of the loop, with the globals g of the pass
Sampled(g) ==
    SampleRT1(g, RT1_init(g["I0"], g["mu_0"], g["mu_ex"], g["V"], g["SRF"],
                          PyInt(10), PyNone))

SweepSample ==
    /\ Running
    /\ HasAttr(globals, "Itot")
    /\ NextIndex(globals) < Len(globals["inc"].items)
    /\ Sampled(SampleGlobals(globals, NextIndex(globals)))

----------------------------------------------------------------------------
(***************************************************************************)
(* The inputs of the operations.                                           *)
(***************************************************************************)
AltA == PyList(<<PyFloat(1, 1), PyFloat(1, 1), PyFloat(1, 1)>>)
NaNA == PyList(<<PyFloat(0, 0), PyFloat(1, 1), PyFloat(1, 1)>>)
Half == PyFloat(1, 2)
KwGiven == [tau |-> PyFloat(7, 10), omega |-> PyFloat(3, 10)]
KwComb == [tau |-> PyFloat(1, 2), omega |-> PyFloat(1, 5)]
\* a volume of negative optical depth
KwNegTau == [tau |-> PyFloat(-1, 10), omega |-> PyFloat(3, 10)]
\* a volume that scatters nothing
KwZeroOmega == [tau |-> PyFloat(7, 10), omega |-> PyFloat(0, 1)]

NcoefsValues == {PyInt(k) : k \in 1..MaxNcoefs}
\* what a caller may pass for t, ncoefs and a, the invalid values included
TInputs == {PyNone, Half}
NcoefsInputs == NcoefsValues \cup {PyNone, PyInt(0), PyInt(-1)}
AInputs == {DefaultA, PyNone,
            PyTuple(<<PyFloat(-1, 1), PyFloat(1, 1), PyFloat(1, 1)>>),
            PyList(<<PyFloat(1, 1), PyFloat(1, 1)>>),
            PyList(<<PyInt(-1), PyFloat(1, 1), PyFloat(1, 1)>>)}

\* weighting factors: 0.2, 0.4, 0.6 and 1.0
CoarseWeights == {Weight(2, 0), Weight(4, 0), Weight(6, 0), Weight(10, 0)}
\* and 0.5, 0.60000003, 0.6000001 and 0.60000015
FineWeights == {Weight(4, 0), Weight(5, 0), Weight(6, 0), Weight(6, 3),
                Weight(6, 10), Weight(6, 15), Weight(10, 0)}

RECURSIVE SeqsOf(_, _)
\* the sequences of length k over S
SeqsOf(S, k) ==
    IF k = 0 THEN {<<>>}
    ELSE {Append(q, x) : q \in SeqsOf(S, k - 1), x \in S}

Init ==
    /\ heap = <<>>
    /\ last = NoCall
    /\ globals = <<>>
    /\ R = <<>>

(***************************************************************************)
(* Spec: phase functions are constructed, combined, and the combination    *)
(* and its components are expanded.                                        *)
(***************************************************************************)
ExpandFew ==
    \E addr \in Combinations(heap), geometry \in {Mono, <<"f", "f", "f", "f">>} :
        Expand(addr, PyFloat(3, 10), PyFloat(7, 10), PyFloat(1, 10),
               PyFloat(1, 5), geometry)

Next ==
    \/ NewRayleigh(NoKw)
    \/ \E ncoefs \in NcoefsValues, a \in {DefaultA, AltA} :
           NewHenyeyGreenstein(Half, ncoefs, a, KwGiven)
    \/ \E ncoefs \in NcoefsValues, a \in {DefaultA, NaNA} :
           NewHGRayleigh(Half, ncoefs, a, KwGiven)
    \/ /\ Running /\ Combinations(heap) = {}
       /\ \E weights \in SeqsOf(CoarseWeights, Len(heap)),
             kw \in {NoKw, KwComb}, np \in {"abs"} :
              NewLinCombV(weights, kw, np)
    \/ ExpandFew

Spec == Init /\ [][Next]_vars

(***************************************************************************)
(* SpecNorm: combinations with weighting factors on the grid of 1e-8,      *)
(* under either numpy.                                                     *)
(***************************************************************************)
NextNorm ==
    \/ NewRayleigh(NoKw)
    \/ \E ncoefs \in NcoefsValues, a \in {DefaultA, NaNA} :
           NewHenyeyGreenstein(Half, ncoefs, a, KwGiven)
    \/ /\ Running /\ Combinations(heap) = {}
       /\ \E weights \in SeqsOf(FineWeights, Len(heap)),
             np \in NumpyVersions :
              NewLinCombV(weights, KwComb, np)

SpecNorm == Init /\ [][NextNorm]_vars

(***************************************************************************)
(* SpecExp: the phase functions and their combinations are expanded in     *)
(* every kind of geometry, with two values for each exit angle.            *)
(***************************************************************************)
\* the exit angles of a call: (0.7, 0.2) and (0.9, 0.4)
ExitAngles == {<<PyFloat(7, 10), PyFloat(1, 5)>>,
               <<PyFloat(9, 10), PyFloat(2, 5)>>}
Geometries == {Mono, <<"f", "f", "f", "f">>, <<"v", "f", "v", "f">>,
               <<"f", "v", "v", "x">>}

ExpandAny ==
    \E addr \in UserObjs(heap), ex \in ExitAngles, geometry \in Geometries :
        Expand(addr, PyFloat(3, 10), ex[1], PyFloat(1, 10), ex[2], geometry)

NextExp ==
    \/ NewRayleigh(NoKw)
    \/ \E ncoefs \in NcoefsValues :
           NewHenyeyGreenstein(Half, ncoefs, AltA, KwGiven)
    \/ /\ Running /\ Combinations(heap) = {}
       /\ \E weights \in SeqsOf(CoarseWeights, Len(heap)) :
              NewLinCombV(weights, KwComb, "abs")
    \/ ExpandAny

SpecExp == Init /\ [][NextExp]_vars

(***************************************************************************)
(* SpecCons: the constructors are called with every kind of argument.      *)
(***************************************************************************)
NextCons ==
    \/ \E t \in TInputs, ncoefs \in NcoefsInputs, a \in AInputs :
           NewHenyeyGreenstein(t, ncoefs, a, KwGiven)
    \/ \E t \in TInputs, ncoefs \in NcoefsInputs, a \in AInputs :
           NewHGRayleigh(t, ncoefs, a, KwGiven)

SpecCons == Init /\ [][NextCons]_vars

(***************************************************************************)
(* SpecRT: the module binds I0, volumes are constructed, RT1 instances are *)
(* constructed on them and their terms are computed.                       *)
(***************************************************************************)
I0Inputs == {PyFloat(1, 1), PyFloat(2, 1)}
MuInputs == {PyFloat(1, 2), PyFloat(1, 1)}
NmaxInputs == {PyInt(0), PyInt(10)}

NextRT ==
    \/ Assign_I0
    \/ \E kw \in {NoKw, KwGiven, KwZeroOmega} : NewRayleigh(kw)
    \/ \E I0 \in I0Inputs, mu_0 \in MuInputs, mu_ex \in MuInputs,
          RV \in {PyNone} \cup {Ref(i) : i \in UserObjs(heap)},
          SRF \in {PyNone, Isotropic}, nmax \in NmaxInputs,
          Fn \in {PyNone, FnGiven} :
           NewRT1(I0, mu_0, mu_ex, RV, SRF, nmax, Fn)
    \/ CallCalc
    \/ CallSurface
    \/ CallVolume
    \/ CallInteraction

SpecRT == Init /\ [][NextRT]_vars

(***************************************************************************)
(* SpecFint: the series of the interaction term is evaluated for cosines   *)
(* inside and outside (0,1) on volumes of positive and negative tau.       *)
(***************************************************************************)
FintMuInputs == {PyFloat(-1, 2), PyFloat(0, 1), PyFloat(1, 2), PyFloat(1, 1),
                 PyFloat(3, 2)}

NextFint ==
    \/ Assign_I0
    \/ \E kw \in {KwGiven, KwNegTau} : NewRayleigh(kw)
    \/ \E RV \in {Ref(i) : i \in UserObjs(heap)}, nmax \in NmaxInputs,
          Fn \in {PyNone, FnGiven} :
           NewRT1(PyFloat(1, 1), PyFloat(1, 2), PyFloat(1, 2), RV, Isotropic,
                  nmax, Fn)
    \/ \E mu1 \in FintMuInputs : CallCalcFint(mu1, PyFloat(1, 2))
    \/ CallInteraction

SpecFint == Init /\ [][NextFint]_vars

(***************************************************************************)
(* SpecSweep: the top level of rt1.py runs, for every list of up to        *)
(* MaxSamples angles and for several volumes.                              *)
(***************************************************************************)
SweepAngles == {PyFloat(0, 1), PyFloat(5, 1), PyFloat(45, 1)}

NextSweep ==
    \/ Assign_I0
    \/ \E k \in 1..MaxSamples : \E inc \in SeqsOf(SweepAngles, k) :
           Assign_inc(inc)
    \/ \E kw \in {NoKw, KwGiven, KwZeroOmega} : Assign_V(kw)
    \/ Assign_SRF
    \/ Assign_Results
    \/ SweepSample

SpecSweep == Init /\ [][NextSweep]_vars

----------------------------------------------------------------------------
(***************************************************************************)
(* Properties.                                                             *)
(***************************************************************************)
\* |sum of the weights - 1| in units of 1e-8
WeightDiff(weights) == Abs(SumTicks(ChoicesOf(weights), 1) - Ticks(WOne))

RECURSIVE WSum(_, _)
\* the sum of the weights from the k-th on, as a weight
WSum(weights, k) ==
    IF k > Len(weights) THEN WZero
    ELSE WAdd(weights[k], WSum(weights, k + 1))

RECURSIVE ExprTotal(_)
\* the sum of the coefficients of an expression
ExprTotal(e) ==
    IF e = {} THEN WZero
    ELSE LET x == CHOOSE y \in e : TRUE IN WAdd(x.w, ExprTotal(e \ {x}))

\* C1 as claimed: the construction of a linear combination fails whenever
\* the sum of the weights differs from 1 by more than 1e-8 and succeeds when
\* it is within 1e-8 of 1.
C1_Tolerance1e8 ==
    last.op = "LinCombV" =>
        (last.exc = "" <=> WeightDiff(last.args.weights) <= 1)

\* some phase function on the heap has a NaN in its a parameter
SomeNaN == \E i \in Components(heap) : \E k \in 1..3 : IsNaN(heap[i].a.items[k])

\* C1 as amended: the construction fails with the normalization error and
\* leaves no combination whenever the sum of the weights differs from 1 by
\* more than 1.5e-7; whenever the sum differs from 1 by less than 0.5e-7 the
\* normalization check passes, and unless an a parameter holds a NaN the
\* construction succeeds and the combination carries the weights as given:
\* its choices are the given ones and the coefficients of its function add
\* up to the sum of the given weights, not to 1.
C1_Normalization ==
    last.op = "LinCombV" =>
        /\ WeightDiff(last.args.weights) > 15 =>
               /\ last.exc = ErrWeights
               /\ last.ref = 0
               /\ Combinations(heap) = {}
        /\ WeightDiff(last.args.weights) < 5 =>
               /\ last.exc # ErrWeights
               /\ SomeNaN => (last.exc = ErrEmpty /\ Combinations(heap) = {})
               /\ ~SomeNaN =>
                      /\ last.exc = ""
                      /\ last.ref \in Combinations(heap)
                      /\ heap[last.ref].Vchoices = ChoicesOf(last.args.weights)
                      /\ ExprTotal(heap[last.ref].func)
                             = WSum(last.args.weights, 1)

\* a combination was constructed from weights whose sum is 1.00000003
C1_Witness ==
    /\ last.op = "LinCombV"
    /\ last.exc = ""
    /\ WeightDiff(last.args.weights) = 3
    /\ last.ref \in Combinations(heap)

(***************************************************************************)
(* Values of Legendre coefficients: main + dev * 1e-8, in units of         *)
(* 1/(4 pi), for weights tenths/10 + ticks * 1e-8.                         *)
(***************************************************************************)
VZero == [main |-> RZero, dev |-> RZero]
VAdd(x, y) == [main |-> RAdd(x.main, y.main), dev |-> RAdd(x.dev, y.dev)]
VTimes(w, r) == [main |-> RMul(Rat(w.tenths, 10), r),
                 dev |-> RMul(RInt(w.ticks), r)]

RECURSIVE ExprAt(_, _)
\* the value at n of an expression in the coefficient closed forms
ExprAt(e, n) ==
    IF e = {} THEN VZero
    ELSE LET x == CHOOSE y \in e : TRUE
         IN  VAdd(VTimes(x.w, BaseCoefAt(x.base, n)), ExprAt(e \ {x}, n))

\* the k-th choice of a list of choices: its phase function, ncoefs, weight
ChoiceObj(Vch, k) == heap[Vch[k].ref]
ChoiceNcoefs(Vch, k) == ChoiceObj(Vch, k).ncoefs.n

RECURSIVE MemberSum(_, _, _)
\* the sum of weight_i * legcoefs_i(n) over the choices i in S
MemberSum(Vch, S, n) ==
    IF S = {} THEN VZero
    ELSE LET i == CHOOSE j \in S : TRUE
         IN  VAdd(VTimes(Vch[i].w, BaseCoefAt(CoefBase(ChoiceObj(Vch, i)), n)),
                  MemberSum(Vch, S \ {i}, n))

\* the choices whose generalized-angle triple equals a
ClassOf(Vch, a) == {i \in 1..Len(Vch) : SameA(ChoiceObj(Vch, i).a, a)}

\* a combination has been expanded: last.val[k] is the expansion of the class
\* of its k-th dummy phase function
ExpandedCombination ==
    /\ last.op = "legexpansion"
    /\ last.exc = ""
    /\ last.ref \in Combinations(heap)

\* C2 as claimed: the expansion of a class runs over n = 0 .. M-1, M the
\* maximum ncoefs of its members, and a member with ncoefs_i <= n contributes
\* nothing at n: the class coefficient at n is the sum of
\* weight_i * legcoefs_i(n) over the members with n < ncoefs_i.
C2_ZeroPadded ==
    ExpandedCombination =>
        LET c == heap[last.ref]
        IN  \A k \in 1..Len(last.val) :
              LET members == ClassOf(c.Vchoices, heap[c.legexpansion[k]].a)
              IN  \A n \in last.val[k].lo..last.val[k].hi :
                    ExprAt(last.val[k].legcoefs, n) =
                        MemberSum(c.Vchoices,
                                  {i \in members : n < ChoiceNcoefs(c.Vchoices, i)},
                                  n)

\* C2 as amended: the expansion of a class runs over n = 0 .. M-1, M the
\* maximum ncoefs of its members, and at every such n the class coefficient
\* is the sum of weight_i * legcoefs_i(n) over all the members of the class:
\* the closed form of a member is evaluated above its own ncoefs too, it is
\* not padded with zeros.
C2_ClassExpansion ==
    ExpandedCombination =>
        LET c == heap[last.ref]
        IN  /\ Len(last.val) = Len(c.legexpansion)
            /\ \A k \in 1..Len(last.val) :
                 LET members == ClassOf(c.Vchoices, heap[c.legexpansion[k]].a)
                 IN  /\ members # {}
                     /\ last.val[k].lo = 0
                     /\ \A i \in members :
                          ChoiceNcoefs(c.Vchoices, i) <= last.val[k].hi + 1
                     /\ \E i \in members :
                          ChoiceNcoefs(c.Vchoices, i) = last.val[k].hi + 1
                     /\ \A n \in last.val[k].lo..last.val[k].hi :
                          ExprAt(last.val[k].legcoefs, n) =
                              MemberSum(c.Vchoices, members, n)

\* a class with two members of different ncoefs was expanded, and the closed
\* form of the smaller member is not zero at an index above its ncoefs
C2_Witness ==
    /\ ExpandedCombination
    /\ LET c == heap[last.ref]
       IN  \E k \in 1..Len(last.val) :
             \E i, j \in ClassOf(c.Vchoices, heap[c.legexpansion[k]].a) :
               /\ ChoiceNcoefs(c.Vchoices, i) < ChoiceNcoefs(c.Vchoices, j)
               /\ \E n \in ChoiceNcoefs(c.Vchoices, i)..last.val[k].hi :
                    MemberSum(c.Vchoices, {i}, n) # VZero

\* C3: the choices of a combination are partitioned by the equality of their
\* generalized-angle triples: every choice is in the class of exactly one
\* dummy phase function, two choices are in the same class exactly when their
\* triples are equal, and the expansion of the combination is the sum of the
\* expansions of the classes, one term for each class, whose coefficients are
\* the weighted sum over the members of the class.
C3_Partition ==
    ExpandedCombination =>
        LET c == heap[last.ref]
            Vch == c.Vchoices
            dummies == c.legexpansion
            K(i) == {k \in 1..Len(dummies) :
                        SameA(heap[dummies[k]].a, ChoiceObj(Vch, i).a)}
            g == last.args
        IN  /\ \A i \in 1..Len(Vch) : Cardinality(K(i)) = 1
            /\ \A i, j \in 1..Len(Vch) :
                 (K(i) = K(j)) <=> SameA(ChoiceObj(Vch, i).a, ChoiceObj(Vch, j).a)
            /\ Len(dummies) =
                 Cardinality({ClassOf(Vch, ChoiceObj(Vch, i).a) : i \in 1..Len(Vch)})
            /\ Len(last.val) = Len(dummies)
            /\ \A k \in 1..Len(dummies) :
                 /\ <<last.val[k]>> =
                      Volume_legexpansion(heap[dummies[k]], g.t_0, g.t_ex,
                                          g.p_0, g.p_ex, g.geometry).val
                 /\ \A n \in 0..last.val[k].hi :
                      ExprAt(last.val[k].legcoefs, n) =
                          MemberSum(Vch, ClassOf(Vch, heap[dummies[k]].a), n)

\* a combination of choices with two different triples was expanded
C3_Witness ==
    /\ ExpandedCombination
    /\ Len(last.val) = 2
    /\ Len(heap[last.ref].Vchoices) >= 2

\* C4: no operation changes an object the caller holds: constructing a
\* combination and expanding it leave every phase function (its function,
\* legcoefs, ncoefs, a, tau and omega) and every list of choices as they were.
C4_InputsUnchanged ==
    [][/\ \A i \in UserObjs(heap) : i <= Len(heap') /\ heap'[i] = heap[i]
       /\ (last'.op = "LinCombV" /\ last'.exc = "") =>
             heap'[last'.ref].Vchoices = ChoicesOf(last'.args.weights)]_vars

\* a combination of two phase functions was constructed and expanded
C4_Witness ==
    /\ ExpandedCombination
    /\ Cardinality(Components(heap)) >= 2
    /\ \A i \in Components(heap) :
         /\ heap[i].func = ExprOf(FuncBase(heap[i]))
         /\ heap[i].legcoefs = ExprOf(CoefBase(heap[i]))

\* C5: a combination carries the tau and omega of its own construction,
\* whatever the tau and omega of its components, and so does the phase
\* function _Vcombiner returns for it.
C5_TauOmega ==
    /\ (last.op = "LinCombV" /\ last.exc = "") =>
          /\ heap[last.ref].tau = last.args.kw.tau
          /\ heap[last.ref].omega = last.args.kw.omega
    /\ \A c \in Combinations(heap) : \A v \in 1..Len(heap) :
          (heap[v].cls = "Phasefunction" /\ "legexpansion" \in heap[v].attrs) =>
              /\ heap[v].tau = heap[c].tau
              /\ heap[v].omega = heap[c].omega

\* a combination with a tau and an omega of its own was constructed from a
\* phase function with another tau and omega and one with none
C5_Witness ==
    /\ last.op = "LinCombV" /\ last.exc = ""
    /\ last.args.kw = KwComb
    /\ \E i, j \in Components(heap) :
         /\ heap[i].tau = PyNone /\ heap[i].omega = PyNone
         /\ heap[j].tau = KwGiven.tau /\ heap[j].omega = KwGiven.omega

\* the a parameters of the expansions h[addr].legexpansion sums, in order
ExpandedAs(h, addr) ==
    IF "legexpansion" \in h[addr].attrs
    THEN [k \in 1..Len(h[addr].legexpansion) |-> h[h[addr].legexpansion[k]].a]
    ELSE <<h[addr].a>>

\* the angles of every term of the last expansion are (pi - theta_0,
\* theta_s, phi_0, phi_s) for these theta_0 and phi_0
ExpandedIn(theta_0, phi_0) ==
    LET as == ExpandedAs(heap, last.ref)
    IN  /\ Len(last.val) = Len(as)
        /\ \A k \in 1..Len(as) :
             last.val[k].x = scat_angle(PiMinus(theta_0), Symbol("theta_s"),
                                        phi_0, Symbol("phi_s"), as[k])

\* the exit angles a call may pass: the values and a sympy symbol
ExitInputs == {PyFloat(7, 10), PyFloat(9, 10), Symbol("theta_ex")}

\* C6: a monostatic expansion never raises and is the same expression
\* whatever exit angles are passed: that of the angle between (pi - theta_0,
\* p_0) and (theta_s, phi_s), in which no exit angle occurs.
C6_MonoIgnoresExit ==
    (last.op = "legexpansion" /\ last.args.geometry = Mono) =>
        /\ last.exc = ""
        /\ ExpandedIn(Symbol("theta_0"), last.args.p_0)
        /\ \A t_ex \in ExitInputs, p_ex \in ExitInputs :
             legexpansion(heap, last.ref, last.args.t_0, t_ex, last.args.p_0,
                          p_ex, Mono) = [exc |-> "", val |-> last.val]

\* a combination of two classes was expanded in monostatic geometry
C6_Witness ==
    /\ last.op = "legexpansion" /\ last.args.geometry = Mono
    /\ last.ref \in Combinations(heap)
    /\ Len(last.val) = 2
    /\ last.args.t_ex = PyFloat(9, 10)

\* the masks of 'v' and 'f'
Masks == [1..4 -> {"v", "f"}]

\* C7 as claimed: with the exit slots fixed, two calls that differ only in
\* t_ex, or only in p_ex, return different expressions.
C7_ExitSubstituted ==
    (/\ last.op = "legexpansion" /\ last.exc = ""
     /\ last.args.geometry \in Masks
     /\ last.args.geometry[2] = "f" /\ last.args.geometry[4] = "f") =>
        /\ \A t_ex \in ExitInputs \ {last.args.t_ex} :
             legexpansion(heap, last.ref, last.args.t_0, t_ex, last.args.p_0,
                          last.args.p_ex, last.args.geometry).val # last.val
        /\ \A p_ex \in ExitInputs \ {last.args.p_ex} :
             legexpansion(heap, last.ref, last.args.t_0, last.args.t_ex,
                          last.args.p_0, p_ex, last.args.geometry).val # last.val

\* C7 as amended: under a mask of 'v' and 'f' the expansion does not raise;
\* the slot of t_0 holds the value of t_0 where its character is 'f' and the
\* symbol theta_0 where it is 'v', and so for p_0 and phi_0; the exit angles
\* are not in the expression, which is the same whatever t_ex and p_ex are
\* passed and whatever the characters of the exit slots are.
C7_IncidenceSlots ==
    (last.op = "legexpansion" /\ last.args.geometry \in Masks) =>
        /\ last.exc = ""
        /\ ExpandedIn(IF last.args.geometry[1] = "f" THEN last.args.t_0
                      ELSE Symbol("theta_0"),
                      IF last.args.geometry[3] = "f" THEN last.args.p_0
                      ELSE Symbol("phi_0"))
        /\ \A t_ex \in ExitInputs, p_ex \in ExitInputs, c2, c4 \in {"v", "f"} :
             legexpansion(heap, last.ref, last.args.t_0, t_ex, last.args.p_0,
                          p_ex,
                          <<last.args.geometry[1], c2, last.args.geometry[3],
                            c4>>)
                 = [exc |-> "", val |-> last.val]

\* a phase function was expanded with all four slots fixed
C7_Witness ==
    /\ last.op = "legexpansion" /\ last.exc = ""
    /\ last.args.geometry = <<"f", "f", "f", "f">>
    /\ last.ref \in Components(heap)
    /\ last.val[1].x = scat_angle(PiMinus(last.args.t_0), Symbol("theta_s"),
                                  last.args.p_0, Symbol("phi_s"),
                                  heap[last.ref].a)

\* what the constructors are to reject: a parameter that is not provided
MissingParameter(args) == args.t = PyNone \/ args.ncoefs = PyNone
\* and a parameter that is not valid
InvalidParameter(args) ==
    \/ args.a.ty # "list"
    \/ Len(args.a.items) # 3
    \/ \E i \in 1..Len(args.a.items) : args.a.items[i].ty # "float"
    \/ ~(args.ncoefs.d > 0 /\ args.ncoefs.n > 0)

\* C8: the construction of a Henyey-Greenstein or Henyey-Greenstein-Rayleigh
\* phase function raises, and leaves no object, when t or ncoefs is not
\* provided (with the message that names the missing parameter) and when
\* ncoefs <= 0, a is not a list, a has not 3 entries or an entry of a is not
\* a float (with another assertion error); for all other arguments it
\* returns an object of the class with the given t, ncoefs > 0 and the given
\* 3 entries of a.  Every object there is has ncoefs > 0 and 3 entries in a.
C8_Construction ==
    /\ last.op \in {"HenyeyGreenstein", "HGRayleigh"} =>
          /\ MissingParameter(last.args) =>
                /\ last.exc \in {ErrT, ErrNcoefs}
                /\ last.exc = ErrT <=> last.args.t = PyNone
                /\ last.ref = 0
          /\ (~MissingParameter(last.args) /\ InvalidParameter(last.args)) =>
                /\ last.exc \in {ErrList, ErrLen, ErrFloat, ErrPositive}
                /\ last.ref = 0
          /\ (~MissingParameter(last.args) /\ ~InvalidParameter(last.args)) =>
                /\ last.exc = ""
                /\ last.ref = Len(heap)
                /\ heap[last.ref].cls = last.op
                /\ heap[last.ref].t = last.args.t
                /\ heap[last.ref].ncoefs = last.args.ncoefs
                /\ heap[last.ref].a = last.args.a
    /\ \A i \in Components(heap) :
          /\ {"t", "ncoefs", "a", "func", "legcoefs"} \subseteq heap[i].attrs
          /\ heap[i].ncoefs.n > 0
          /\ heap[i].a.ty = "list" /\ Len(heap[i].a.items) = 3

\* after a phase function was constructed, a construction with ncoefs = 0
\* raised and left no object
C8_Witness ==
    /\ last.op = "HGRayleigh"
    /\ last.args.ncoefs = PyInt(0) /\ last.args.t # PyNone
    /\ last.args.a = DefaultA
    /\ last.exc = ErrPositive /\ last.ref = 0
    /\ Len(heap) = 1 /\ heap[1].cls = "HenyeyGreenstein"

\* C9 as claimed: calc() of an instance with a surface, a volume and mu_0,
\* mu_ex in (0,1] returns (total, surface, volume, interaction), total being
\* the sum of the three terms.
C9_CalcReturns ==
    last.op = "calc" =>
        /\ last.exc = ""
        /\ Len(last.val) = 4
        /\ last.val[1] = Total(last.val[2], last.val[3], last.val[4])
        /\ last.val[2] = surface(R, globals).val
        /\ last.val[3] = volume(R, globals).val
        /\ last.val[4] = interaction(R, globals).val

\* C10 as claimed: surface() is the surface term of the I0 of the instance
\* and the tau of its volume.
C10_SurfaceOwnFields ==
    last.op = "surface" =>
        /\ last.exc = ""
        /\ last.val = SurfaceTerm(R.I0, heap[R.RV.n].tau, R.mu_0, R.mu_ex,
                                  brdf(R.SRF,
                                       cos_theta(Neg(R.mu_0), R.mu_ex,
                                                 PyFloat(0, 1), PyFloat(0, 1))))

\* C11 as claimed: with a volume of omega = 0, calc() completes and its
\* volume and interaction terms are 0, so that the total is the surface term;
\* so do volume() and interaction() called by themselves.
C11_ZeroOmega ==
    (/\ last.op \in {"calc", "volume", "interaction"}
     /\ heap[R.RV.n].omega = PyFloat(0, 1)) =>
        /\ last.exc = ""
        /\ last.op = "calc" =>
              /\ Len(last.val) = 4
              /\ last.val[3] = PyFloat(0, 1)
              /\ last.val[4] = PyFloat(0, 1)
              /\ last.val[1] = last.val[2]
        /\ last.op # "calc" => last.val = PyFloat(0, 1)

\* C12: a construction of RT1 without a volume or without a surface raises
\* and binds no instance (R is what it was); with both it returns, and the
\* instance holds the volume and the surface it was given, with the I0, the
\* mu_0 and the mu_ex of the call.
C12_NeedsCollaborators ==
    [][last'.op = "RT1" =>
         /\ last'.args.RV = PyNone => (last'.exc = ErrRV /\ R' = R)
         /\ (last'.args.RV # PyNone /\ last'.args.SRF = PyNone) =>
                (last'.exc = ErrSRF /\ R' = R)
         /\ (last'.args.RV # PyNone /\ last'.args.SRF # PyNone) =>
                /\ last'.exc = ""
                /\ R'.RV = last'.args.RV
                /\ R'.SRF = last'.args.SRF
                /\ R'.I0 = last'.args.I0
                /\ R'.mu_0 = last'.args.mu_0
                /\ R'.mu_ex = last'.args.mu_ex]_vars

\* after an instance was constructed, a construction with a volume and
\* without a surface raised, and R is still the earlier instance
C12_Witness ==
    /\ last.op = "RT1"
    /\ last.exc = ErrSRF
    /\ last.args.RV # PyNone
    /\ R # <<>>
    /\ R.SRF = Isotropic
    /\ R.RV.n \in UserObjs(heap)

\* the sum over n = 0 .. nmax - 1 of the terms of (37), each with its inner
\* sum over k = 1 .. n + 1
FintSeries(mu1, tau, nmax) ==
    [fn |-> "Fint",
     args |-> <<mu1, tau, [n \in 0..(nmax - 1) |-> [k \in 1..(n + 1) |-> k]]>>]

\* mu1 <= 0, mu1 >= 1 or tau < 0
OutOfDomain(mu1, tau) ==
    \/ mu1.n <= 0
    \/ mu1.n >= mu1.d
    \/ tau.n < 0

\* C14 as claimed: _calc_Fint fails with a domain error for mu1 <= 0,
\* mu1 >= 1 or tau < 0; for mu1 in (0,1), tau >= 0 and nmax > 0 it returns
\* the sum over n = 0 .. nmax - 1 of the terms of every order.
C14_FintDomain ==
    (last.op = "_calc_Fint" /\ R.Fn # PyNone) =>
        /\ OutOfDomain(last.args.mu1, heap[R.RV.n].tau) =>
               last.exc = "DomainError"
        /\ (~OutOfDomain(last.args.mu1, heap[R.RV.n].tau) /\ R.nmax.n > 0) =>
               /\ last.exc = ""
               /\ last.val = FintSeries(last.args.mu1, heap[R.RV.n].tau,
                                        R.nmax.n)

\* C13 as claimed: an error in the evaluation of a sample does not end the
\* sweep: after every sample the run goes on, the results of the sample are
\* either what calc() returned or still NaN, and the sweep has not ended
\* before its last sample.
C13_SweepContinues ==
    last.op = "sample" =>
        /\ Running
        /\ \/ globals["Itot"].items[last.args.i + 1] = NaN
           \/ globals["Itot"].items[last.args.i + 1] = last.val[1]
        /\ ENABLED SweepSample \/ last.args.i + 1 = Len(globals["inc"].items)

====
